---------------------------- MODULE Spec2Model ----------------------------
(***************************************************************************)
(* A model of the GitHub GraphQL client of halfguru (src/src/github.rs):   *)
(* the retry loop of GithubClient::graphql, the paging loop of repo_loc    *)
(* and the per-repository aggregation of total_loc.                        *)
(*                                                                         *)
(* The program is sequential.  A step of the model runs the code from one  *)
(* suspension point (the transport call, a sleep, a call or a return) to   *)
(* the next.  The server is the environment: every transport request is    *)
(* answered by any response of the alphabet of the run's scope.            *)
(***************************************************************************)
EXTENDS Integers, Sequences, FiniteSets, TLC

(***************************************************************************)
(* Bounds of the model.                                                    *)
(***************************************************************************)
\* commit records the server hands out during one repo_loc run (paging scope)
MaxRecs == 3
\* history pages requested during one repo_loc run (paging scope)
MaxPages == 3
\* repositories in the listing (aggregate scope)
MaxRepos == 3

(***************************************************************************)
(* Option<T>, Result<T, E>                                                 *)
(***************************************************************************)
None == [some |-> FALSE]
Some(v) == [some |-> TRUE, v |-> v]

NoResult == [tag |-> "none"]
Ok(v) == [tag |-> "ok", val |-> v]
Err(e) == [tag |-> "err", err |-> e]

\* all sequences over S of length at most n
SeqsUpTo(S, n) == UNION {[1..k -> S] : k \in 0..n}

(***************************************************************************)
(* u64.  TLC's integers are 32 bits wide, so a u64 is kept as four 16-bit  *)
(* limbs, least significant first; the arithmetic below is exact for the   *)
(* full 64-bit range.                                                      *)
(***************************************************************************)
Base == 2^16

U64 == [1..4 -> 0..(Base - 1)]

\* the u64 of a small natural number (n < 2^31)
U64Of(n) == <<n % Base, n \div Base, 0, 0>>

U64_ZERO == <<0, 0, 0, 0>>
U64_ONE == <<1, 0, 0, 0>>
U64_MAX == <<Base - 1, Base - 1, Base - 1, Base - 1>>
\* 2^63, the first value that is negative when cast to i64
U64_HIGH == <<0, 0, 0, 2^15>>

\* a <= b
U64Leq(a, b) ==
    \/ a = b
    \/ \E i \in 1..4 : /\ a[i] < b[i]
                       /\ \A j \in (i + 1)..4 : a[j] = b[j]

\* the limbs and the carry out of a + b
U64AddCarry(a, b) ==
    LET s1 == a[1] + b[1]
        s2 == a[2] + b[2] + (s1 \div Base)
        s3 == a[3] + b[3] + (s2 \div Base)
        s4 == a[4] + b[4] + (s3 \div Base)
    IN  [sum |-> <<s1 % Base, s2 % Base, s3 % Base, s4 % Base>>,
         carry |-> s4 \div Base]

\* u64::wrapping_add: the sum modulo 2^64
wrapping_add(a, b) == U64AddCarry(a, b).sum

\* faulty variant: the sum wraps where it should stay at the largest u64
saturating_add_wraps(a, b) == U64AddCarry(a, b).sum

\* u64::saturating_add
saturating_add(a, b) ==
    LET r == U64AddCarry(a, b)
    IN  IF r.carry > 0 THEN U64_MAX ELSE r.sum

\* faulty variant: an absent value read as 1
unwrap_or_1(o) == IF o.some THEN o.v ELSE U64_ONE

\* Option<u64>::unwrap_or(0)
unwrap_or_0(o) == IF o.some THEN o.v ELSE U64_ZERO

(***************************************************************************)
(* LocStats (github.rs:22-27)                                              *)
(***************************************************************************)
LocStats(a, d, c) == [additions |-> a, deletions |-> d, commits |-> c]

LocStatsDefault == LocStats(U64_ZERO, U64_ZERO, U64_ZERO)


(***************************************************************************)
(* State                                                                   *)
(***************************************************************************)
VARIABLES
    scope,      \* which alphabets the environment of this run draws from
    \* main (main.rs:13-46)
    mpc,        \* "idle" | "start" | "total_loc" | "fetch" | "await" |
                \* "dark" | "light" | "done" | "failed" | "panicked"
    fetch,      \* how many of the five count fetches have returned Ok
    counts,     \* the counts they returned, in the order of the calls
    written,    \* the documents written, in order
    snapshot,   \* the Stats handed to the renderer
    mresult,    \* the value main returned
    \* total_loc (github.rs:526-545)
    tpc,        \* "idle" | "start" | "list" | "loop" | "repo" | "done" | "failed"
    repos,      \* the listing returned by list_owned_repos
    idx,        \* repositories the for loop has finished
    total,      \* the running LocStats
    tresult,    \* the value total_loc returned
    \* repo_loc (github.rs:393-523)
    rpc,        \* "idle" | "loop" | "await" | "ret"
    repo,       \* its repo argument
    stats,      \* the LocStats it accumulates
    cursor,     \* Option<String>
    rresult,    \* the value it returned
    \* graphql (github.rs:41-108)
    gpc,        \* "idle" | "send" | "sleep" | "ret"
    query,      \* its query argument
    attempt,    \* the local variable attempt
    delay,      \* the Duration of the sleep in progress
    gresult,    \* the value it returned
    \* observers: they record what happened and steer nothing
    resp,       \* the last transport response of the graphql call
    requests,   \* transport requests of the graphql call
    sleeps,     \* sleeps the graphql call has completed
    n429,       \* responses of the graphql call with status 429
    n5xx,       \* responses of the graphql call with a 5xx status
    seen,       \* commit records decoded by the repo_loc run, in order
    pages,      \* page requests of the repo_loc run
    sent,       \* transport requests of the repo_loc run (budget scope)
    answers,    \* the responses to the requests of the graphql call, in
                \* order (budget scope)
    peer,       \* the graphql call of a second task that uses the same
                \* client at the same time (concurrent scope): its locals,
                \* its last response and what its operation returned
    started,    \* repositories repo_loc was called for, in order
    outcomes,   \* what each finished repo_loc call returned, in order
    listings,   \* calls of list_owned_repos
    warnings,   \* warnings written to stderr
    failed_at   \* the operation of main that failed, "" while none has

tvars == <<tpc, repos, idx, total, tresult, started, outcomes, listings, warnings>>
rvars == <<rpc, repo, stats, cursor, rresult, seen, pages, sent>>
gvars == <<gpc, query, attempt, delay, gresult, resp, requests, sleeps, n429, n5xx,
          answers>>
mvars == <<mpc, fetch, counts, snapshot, written, mresult, failed_at>>
vars == <<scope, peer, mvars, tvars, rvars, gvars>>

(***************************************************************************)
(* Program constants                                                       *)
(***************************************************************************)
\* main.rs:21
Username == "halfguru"

\* github.rs:43
MAX_RETRIES == 4

(***************************************************************************)
(* Errors.  An anyhow error is its message: the variant of the message     *)
(* and the values formatted into it.                                       *)
(***************************************************************************)
\* github.rs:59
ErrNetwork == [kind |-> "network"]
\* github.rs:68
ErrParseJson == [kind |-> "parse_json"]
\* github.rs:72
ErrGraphqlErrors(errors) == [kind |-> "graphql_errors", errors |-> errors]
\* faulty variant: the attempts formatted into the message
ErrRateLimitedCounted == [kind |-> "rate_limited", attempts |-> 4]

\* github.rs:83-85
ErrRateLimited == [kind |-> "rate_limited"]
\* faulty variant: the body left out of the error
ErrHttpStatusOnly(status, json) == [kind |-> "http", status |-> status]

\* github.rs:103-106
ErrHttp(status, json) == [kind |-> "http", status |-> status, body |-> json]
\* github.rs:188-189, 484-485
ErrDeserialize(what) == [kind |-> "deserialize", what |-> what]
\* github.rs:493-495
ErrMissingHistory(username, r) ==
    [kind |-> "missing_history", owner |-> username, repo |-> r]

(***************************************************************************)
(* Durations                                                               *)
(***************************************************************************)
NoDelay == [secs |-> U64_ZERO, millis |-> 0]
\* Duration::from_secs of a u64
from_secs(s) == [secs |-> s, millis |-> 0]
\* Duration::from_millis of a small number of milliseconds
from_millis(ms) == [secs |-> U64Of(ms \div 1000), millis |-> ms % 1000]

(***************************************************************************)
(* Queries (the Query Builder).  A query is kept as the values formatted   *)
(* into its text.                                                          *)
(***************************************************************************)
\* github.rs:152-164
ListQuery(username) == [kind |-> "list_owned_repos", login |-> username]

\* github.rs:447-450: the cursor in quotes, or the bare word null
AfterArg(c) ==
    IF c.some THEN [quoted |-> TRUE, text |-> c.v]
    ELSE [quoted |-> FALSE, text |-> "null"]

\* faulty variant: every request asks for the first page
HistoryQueryFirstPage(username, r, c) ==
    [kind |-> "history", owner |-> username, name |-> r, after |-> AfterArg(None)]

\* github.rs:452-481
HistoryQuery(username, r, c) ==
    [kind |-> "history", owner |-> username, name |-> r, after |-> AfterArg(c)]

\* github.rs:112-122
OwnedRepoCountQuery(username) == [kind |-> "owned_repo_count", login |-> username]

\* github.rs:337-351
StarCountQuery(username) == [kind |-> "star_count", login |-> username]

\* github.rs:207-217
FollowerCountQuery(username) == [kind |-> "follower_count", login |-> username]

\* github.rs:290-300
CommitCountQuery(username) == [kind |-> "commit_count", login |-> username]

\* github.rs:247-260
ContributedReposQuery(username) == [kind |-> "contributed_repos", login |-> username]

NoQuery == [kind |-> "none"]

(***************************************************************************)
(* The typed decode structures: for each query, the members on the path    *)
(* from the root of the body to the value read, each an Option or not.     *)
(***************************************************************************)
Member(name, optional) == [name |-> name, optional |-> optional]

\* github.rs:10-14, 124-135
OwnedRepoCountPath ==
    <<Member("data", TRUE), Member("user", TRUE),
      Member("repositories", FALSE), Member("totalCount", FALSE)>>

\* github.rs:10-14, 219-230
FollowerCountPath ==
    <<Member("data", TRUE), Member("user", TRUE),
      Member("followers", FALSE), Member("totalCount", FALSE)>>

\* github.rs:10-14, 262-273
ContributedReposPath ==
    <<Member("data", TRUE), Member("user", TRUE),
      Member("repositories", FALSE), Member("totalCount", FALSE)>>

\* github.rs:302-320
CommitCountPath ==
    <<Member("data", TRUE), Member("user", TRUE),
      Member("contributionsCollection", TRUE),
      Member("totalCommitContributions", FALSE)>>

\* github.rs:353-368: down to the list of nodes
StarCountPath ==
    <<Member("data", TRUE), Member("user", TRUE),
      Member("repositories", FALSE), Member("nodes", TRUE)>>

\* github.rs:10-14, 369-372: within one node of the list
StarNodePath == <<Member("stargazers", FALSE), Member("totalCount", FALSE)>>

\* github.rs:166-181: down to the list of nodes
ListOwnedReposPath ==
    <<Member("data", TRUE), Member("user", TRUE),
      Member("repositories", FALSE), Member("nodes", TRUE)>>

\* github.rs:182-185: within one node of the list
RepoNameNodePath == <<Member("name", FALSE)>>

\* github.rs:394-421: down to the history container
HistoryPath ==
    <<Member("data", TRUE), Member("repository", TRUE),
      Member("defaultBranchRef", TRUE), Member("target", TRUE),
      Member("history", TRUE)>>

(***************************************************************************)
(* The environment: what the server may answer.                            *)
(*                                                                         *)
(* A JSON body is kept as its top-level `errors` member and the shape the  *)
(* typed decoder of the query finds in the rest of it.                     *)
(***************************************************************************)
\* a commit record of a history page (github.rs:428-441)
Node(login, additions, deletions) ==
    [login |-> login, additions |-> additions, deletions |-> deletions]

\* github.rs:431-441: the login of a record in which author, user or login
\* is absent or null: each of the three is an Option
Missing(member) == [some |-> FALSE, missing |-> member]

\* The scopes draw the server's answers from different alphabets: each
\* is wide where its claims are and narrow elsewhere.
\*   "retry"      every status, header and `errors` member; one repository
\*   "paging"     every split of the records over the pages; one repository
\*   "aggregate"  several repositories, counters near the 64-bit limits
\*   "main"       every break of every decoder's path; one repository
\*   "authors"    every way a record can be another author's or nobody's
\*   "budget"     the requests of a run and the responses of a call, kept
\*                in sent and answers
\*   "snapshot"   a run of main with counters up to the largest u64
\*   "concurrent" two tasks, each with one count fetch on the same client
\*   "forever"    pages without records and without end: the loop of
\*                repo_loc runs as long as the server says there is more,
\*                and pages stops counting at PagesCap + 1
RecsCap ==
    CASE scope = "paging" -> MaxRecs
      [] scope \in {"aggregate", "authors"} -> 2
      [] scope = "forever" -> 0
      [] OTHER -> 1
PagesCap == IF scope \in {"paging", "forever"} THEN MaxPages ELSE 2

\* the commit records the server may hand out
Nodes ==
    CASE scope = "paging" ->
           { Node(Some(Username), None, Some(U64_ONE)),
             Node(Some(Username), Some(U64_MAX), None),
             Node(Some("other"), Some(U64_ONE), Some(U64_ONE)),
             Node(None, Some(U64_ONE), Some(U64_ONE)) }
      [] scope = "aggregate" ->
           { Node(Some(Username), Some(U64_HIGH), Some(U64_ONE)),
             Node(Some(Username), Some(U64_ONE), Some(U64_MAX)) }
      [] scope = "snapshot" ->
           { Node(Some(Username), Some(U64_ONE), Some(U64_ONE)),
             Node(Some(Username), Some(U64_MAX), Some(U64_ONE)),
             Node(Some(Username), Some(U64_HIGH), Some(U64_ONE)),
             Node(Some(Username), Some(U64_ONE), Some(U64_MAX)) }
      [] scope = "authors" ->
           { Node(Some(Username), Some(U64_ONE), Some(U64_ONE)),
             Node(Some("other"), Some(U64_ONE), Some(U64_ONE)),
             Node(Some(""), Some(U64_ONE), Some(U64_ONE)),
             Node(Missing("author"), Some(U64_ONE), Some(U64_ONE)),
             Node(Missing("user"), Some(U64_ONE), Some(U64_ONE)),
             Node(Missing("login"), Some(U64_ONE), Some(U64_ONE)) }
      [] OTHER ->
           { Node(Some(Username), Some(U64_ONE), Some(U64_ONE)) }

\* the cursors the server may hand out
Cursors ==
    CASE scope = "paging" -> {None, Some("c1"), Some("c2")}
      [] scope = "aggregate" -> {Some("c1")}
      [] OTHER -> {None, Some("c1")}

\* the repository listings the server may hand out
RepoNames == <<"a", "b", "c", "d">>

RepoLists ==
    IF scope = "aggregate" THEN {SubSeq(RepoNames, 1, k) : k \in 0..MaxRepos}
    ELSE {SubSeq(RepoNames, 1, k) : k \in 0..1}

\* a body no typed decoder accepts (a member of the wrong type, a required
\* member missing)
InvalidData == [shape |-> "invalid"]

\* the body of an error page: a message
MessageData ==
    {[shape |-> "message", text |-> m] :
        m \in IF scope = "retry" THEN {"m1", "m2"} ELSE {"m1"}}

\* A body in which the path of the decoder breaks: the first `depth` members
\* of the path are there and the next one is absent, is null, or is a value
\* of another type than the decoder's (a string in the place of an object, a
\* list or a number)
Gaps == {"absent", "null", "wrong"}

Chain(depth, gap) == [shape |-> "chain", depth |-> depth, gap |-> gap]

\* a body with the list of nodes, in one node of which the path breaks
BadNode(depth, gap) == [shape |-> "bad_node", depth |-> depth, gap |-> gap]

\* the bodies in which path breaks, by one of the gaps
ChainsOf(path, gaps) == {Chain(d, g) : d \in 0..(Len(path) - 1), g \in gaps}

BadNodesOf(path, gaps) == {BadNode(d, g) : d \in 0..(Len(path) - 1), g \in gaps}

\* history bodies in which the Option chain data / repository /
\* defaultBranchRef / target / history breaks
BrokenChains ==
    IF scope = "paging" THEN ChainsOf(HistoryPath, {"absent", "null"})
    ELSE {Chain(0, "absent")}

\* history bodies with the history container, holding at most n records
PageData(n) ==
    {[shape |-> "page", hasNextPage |-> h, endCursor |-> c, nodes |-> ns] :
        h \in BOOLEAN, c \in Cursors,
        ns \in {None} \cup {Some(l) : l \in SeqsUpTo(Nodes, n)}}

\* listing bodies: the path to the nodes or to a name broken, or the node list
ListData ==
    (IF scope = "main"
     THEN ChainsOf(ListOwnedReposPath, Gaps) \cup BadNodesOf(RepoNameNodePath, Gaps)
     ELSE {Chain(0, "absent")})
        \cup {[shape |-> "list", nodes |-> ns] :
                    ns \in {None} \cup {Some(l) : l \in RepoLists}}

\* the counts the server may report: a small one, and 2^32 + 1
Counts == {U64Of(3), <<1, 0, 1, 0>>}

\* bodies of a count query: the path to the count broken, or the count
CountData(path) ==
    ChainsOf(path, Gaps) \cup {[shape |-> "count", totalCount |-> v] : v \in Counts}

\* the stargazer counts the server may report
StarCounts == {U64Of(3), U64_MAX}

\* bodies of the star query: the path to the nodes or to a count broken, or
\* the stargazer counts of at most two repositories
StarData ==
    ChainsOf(StarCountPath, Gaps) \cup BadNodesOf(StarNodePath, Gaps)
        \cup {[shape |-> "stars", counts |-> l] : l \in SeqsUpTo(StarCounts, 2)}

\* the bodies a well-behaved or ill-behaved server answers query q with
DataFor(q) ==
    CASE q.kind = "history" ->
           {InvalidData} \cup BrokenChains \cup PageData(RecsCap - Len(seen))
      [] q.kind = "list_owned_repos" -> {InvalidData} \cup ListData
      [] q.kind = "owned_repo_count" -> CountData(OwnedRepoCountPath)
      [] q.kind = "star_count" -> StarData
      [] q.kind = "follower_count" -> CountData(FollowerCountPath)
      [] q.kind = "commit_count" -> CountData(CommitCountPath)
      [] q.kind = "contributed_repos" -> CountData(ContributedReposPath)

Json(errors, data) == [errors |-> errors, data |-> data]

Statuses ==
    CASE scope = "retry" -> {200, 401, 404, 429, 500, 503}
      [] scope \in {"main", "budget", "concurrent"} -> {200, 429, 500}
      [] OTHER -> {200, 500}

\* 2^64 - 1 and 2^64 in decimal digits
U64MaxText ==
    <<"1", "8", "4", "4", "6", "7", "4", "4", "0", "7", "3", "7", "0", "9", "5",
      "5", "1", "6", "1", "5">>

U64OverText ==
    <<"1", "8", "4", "4", "6", "7", "4", "4", "0", "7", "3", "7", "0", "9", "5",
      "5", "1", "6", "1", "6">>

\* the values of the Retry-After header, as character sequences: numbers
\* with and without a sign, text, a blank before the digits, the empty
\* value, a byte outside visible ASCII, the largest u64 and the number after
RetryAfterValues ==
    IF scope = "retry"
    THEN {None, Some(<<"0">>), Some(<<"1">>), Some(<<"+", "3">>),
          Some(<<"-", "1">>), Some(<<" ", "1">>), Some(<<"x">>), Some(<<>>),
          Some(<<"0xE9">>), Some(U64MaxText), Some(U64OverText)}
    ELSE {None}

\* the `errors` member: absent, null, or a list of errors
ErrorsMembers ==
    IF scope = "retry" THEN {"absent", "null", "list"} ELSE {"absent", "list"}

NoResp == [kind |-> "none"]
SendError == [kind |-> "send_error"]
BadJson(status, retry_after) ==
    [kind |-> "bad_json", status |-> status, retry_after |-> retry_after]
Decoded(status, retry_after, json) ==
    [kind |-> "json", status |-> status, retry_after |-> retry_after,
     json |-> json]

\* the bodies of the responses with status s to query q
JsonFor(q, s) ==
    IF s \in 200..299
    THEN {Json("absent", d) : d \in DataFor(q)}
            \cup {Json(e, d) : e \in ErrorsMembers \ {"absent"}, d \in MessageData}
    ELSE {Json(e, d) : e \in ErrorsMembers, d \in MessageData}

\* everything the transport may come back with for query q
Responses(q) ==
    {SendError}
        \cup {BadJson(s, None) : s \in Statuses}
        \cup UNION {{Decoded(s, h, j) : h \in RetryAfterValues, j \in JsonFor(q, s)} :
                        s \in Statuses}

(***************************************************************************)
(* The Retry-After header (github.rs:87-91)                                *)
(***************************************************************************)
DigitVal ==
    ("0" :> 0) @@ ("1" :> 1) @@ ("2" :> 2) @@ ("3" :> 3) @@ ("4" :> 4) @@
    ("5" :> 5) @@ ("6" :> 6) @@ ("7" :> 7) @@ ("8" :> 8) @@ ("9" :> 9)

\* the characters of the model that HeaderValue::to_str accepts
VisibleAscii == DOMAIN DigitVal \cup {"x", "+", "-", " "}

\* HeaderValue::to_str(..).ok()
to_str(chars) ==
    IF \A i \in 1..Len(chars) : chars[i] \in VisibleAscii
    THEN Some(chars) ELSE None

\* a * 10 + d, checked
U64PushDigit(a, d) ==
    LET s1 == a[1] * 10 + d
        s2 == a[2] * 10 + (s1 \div Base)
        s3 == a[3] * 10 + (s2 \div Base)
        s4 == a[4] * 10 + (s3 \div Base)
    IN  [sum |-> <<s1 % Base, s2 % Base, s3 % Base, s4 % Base>>,
         carry |-> s4 \div Base]

RECURSIVE ParseDigits(_, _)
ParseDigits(chars, acc) ==
    IF chars = <<>> THEN Some(acc)
    ELSE IF Head(chars) \notin DOMAIN DigitVal THEN None
    ELSE LET r == U64PushDigit(acc, DigitVal[Head(chars)])
         IN  IF r.carry > 0 THEN None ELSE ParseDigits(Tail(chars), r.sum)

\* str::parse::<u64>().ok(): decimal digits after an optional plus sign
parse_u64(chars) ==
    LET digits == IF chars # <<>> /\ Head(chars) = "+" THEN Tail(chars) ELSE chars
    IN  IF digits = <<>> THEN None ELSE ParseDigits(digits, U64_ZERO)

\* faulty variant: a header that does not parse read as no wait at all
wait_secs_or_0(retry_after) ==
    LET str == IF retry_after.some THEN to_str(retry_after.v) ELSE None
        n == IF str.some THEN parse_u64(str.v) ELSE None
    IN  IF n.some THEN n.v ELSE U64_ZERO

\* github.rs:87-91
wait_secs(retry_after) ==
    LET str == IF retry_after.some THEN to_str(retry_after.v) ELSE None
        n == IF str.some THEN parse_u64(str.v) ELSE None
    IN  IF n.some THEN n.v ELSE U64Of(2)

(***************************************************************************)
(* graphql: one pass of the retry loop (github.rs:46-107)                  *)
(***************************************************************************)
\* StatusCode::is_success
is_success(status) == status \in 200..299

\* StatusCode::is_server_error
is_server_error(status) == status \in 500..599

\* github.rs:71
has_errors(json) == json.errors # "absent"

\* faulty variant: the ceiling compared with > instead of >=
retries_exhausted_late(att) == att > MAX_RETRIES

\* faulty variant: the ceiling one attempt early
retries_exhausted_early(att) == att >= MAX_RETRIES - 1

\* github.rs:82
retries_exhausted(att) == att >= MAX_RETRIES

\* faulty variant: the ceiling compared with <= instead of <
retry_server_error_late(status, att) ==
    is_server_error(status) /\ att <= MAX_RETRIES

\* faulty variant: a server error retried whatever the attempt number
retry_server_error_always(status, att) == is_server_error(status)

\* github.rs:97
retry_server_error(status, att) == is_server_error(status) /\ att < MAX_RETRIES

\* faulty variant: the backoff grows by 250 ms a time
backoff_linear(att) == from_millis(250 * att)

\* github.rs:98
backoff(att) == from_millis(250 * 2^(att - 1))

Return(result) == [next |-> "ret", result |-> result, delay |-> NoDelay]
Sleep(d) == [next |-> "sleep", result |-> NoResult, delay |-> d]

\* faulty variant: the `errors` member looked at only once the status is a success
graphql_step_errors_on_success(r, att) ==
    IF r.kind = "send_error" THEN Return(Err(ErrNetwork))
    ELSE IF r.kind = "bad_json" THEN Return(Err(ErrParseJson))
    ELSE IF is_success(r.status)
         THEN IF has_errors(r.json)
              THEN Return(Err(ErrGraphqlErrors(r.json.errors)))
              ELSE Return(Ok(r.json))
    ELSE IF r.status = 429
         THEN IF retries_exhausted(att) THEN Return(Err(ErrRateLimited))
              ELSE Sleep(from_secs(wait_secs(r.retry_after)))
    ELSE IF retry_server_error(r.status, att) THEN Sleep(backoff(att))
    ELSE Return(Err(ErrHttp(r.status, r.json)))

\* faulty variant: a 429 retried at once, the sleep forgotten
graphql_step_no_sleep(r, att) ==
    IF r.kind = "send_error" THEN Return(Err(ErrNetwork))
    ELSE IF r.kind = "bad_json" THEN Return(Err(ErrParseJson))
    ELSE IF has_errors(r.json) THEN Return(Err(ErrGraphqlErrors(r.json.errors)))
    ELSE IF is_success(r.status) THEN Return(Ok(r.json))
    ELSE IF r.status = 429
         THEN IF retries_exhausted(att) THEN Return(Err(ErrRateLimited))
              ELSE [next |-> "send", result |-> NoResult, delay |-> NoDelay]
    ELSE IF retry_server_error(r.status, att) THEN Sleep(backoff(att))
    ELSE Return(Err(ErrHttp(r.status, r.json)))

\* what the loop body does with response r of attempt number att
graphql_step(r, att) ==
    IF r.kind = "send_error" THEN Return(Err(ErrNetwork))
    ELSE IF r.kind = "bad_json" THEN Return(Err(ErrParseJson))
    ELSE IF has_errors(r.json) THEN Return(Err(ErrGraphqlErrors(r.json.errors)))
    ELSE IF is_success(r.status) THEN Return(Ok(r.json))
    ELSE IF r.status = 429
         THEN IF retries_exhausted(att) THEN Return(Err(ErrRateLimited))
              ELSE Sleep(from_secs(wait_secs(r.retry_after)))
    ELSE IF retry_server_error(r.status, att) THEN Sleep(backoff(att))
    ELSE Return(Err(ErrHttp(r.status, r.json)))

\* faulty variant: the attempts are counted over the calls of a repo_loc run
GraphqlCallRunBudget(q) ==
    /\ gpc' = "send"
    /\ query' = q
    /\ attempt' = IF sent < MAX_RETRIES THEN sent ELSE MAX_RETRIES - 1
    /\ delay' = NoDelay
    /\ gresult' = NoResult
    /\ resp' = NoResp
    /\ requests' = 0
    /\ sleeps' = 0
    /\ n429' = 0
    /\ n5xx' = 0
    /\ answers' = <<>>

\* a caller invokes graphql(q): the locals of github.rs:43-44
GraphqlCall(q) ==
    /\ gpc' = "send"
    /\ query' = q
    /\ attempt' = 0
    /\ delay' = NoDelay
    /\ gresult' = NoResult
    /\ resp' = NoResp
    /\ requests' = 0
    /\ sleeps' = 0
    /\ n429' = 0
    /\ n5xx' = 0
    /\ answers' = <<>>

\* the caller has taken the value graphql returned
GraphqlTaken ==
    /\ gpc' = "idle"
    /\ query' = NoQuery
    /\ attempt' = 0
    /\ delay' = NoDelay
    /\ gresult' = NoResult
    /\ resp' = NoResp
    /\ requests' = 0
    /\ sleeps' = 0
    /\ n429' = 0
    /\ n5xx' = 0
    /\ answers' = <<>>

HasStatus(r, S) == r.kind \in {"bad_json", "json"} /\ r.status \in S

\* github.rs:47-107: one attempt, from the request to the sleep or the return
GraphqlAttempt ==
    /\ gpc = "send"
    /\ \E r \in Responses(query) :
        LET att == attempt + 1
            out == graphql_step(r, att)
        IN  /\ attempt' = att
            /\ requests' = requests + 1
            /\ resp' = r
            /\ n429' = IF HasStatus(r, {429}) THEN n429 + 1 ELSE n429
            /\ n5xx' = IF HasStatus(r, 500..599) THEN n5xx + 1 ELSE n5xx
            /\ gpc' = out.next
            /\ gresult' = out.result
            /\ delay' = out.delay
            /\ answers' = IF scope = "budget" THEN Append(answers, r) ELSE answers
    /\ sent' = IF scope = "budget" /\ rpc = "await" THEN sent + 1 ELSE sent
    /\ UNCHANGED <<scope, peer, mvars, query, sleeps, tvars,
                   rpc, repo, stats, cursor, rresult, seen, pages>>

\* github.rs:92-93, 99-100: the sleep is over, the loop continues
GraphqlWake ==
    /\ gpc = "sleep"
    /\ gpc' = "send"
    /\ sleeps' = sleeps + 1
    /\ UNCHANGED <<scope, peer, mvars, query, attempt, delay, gresult, resp, requests, n429, n5xx,
                   answers, tvars, rvars>>

(***************************************************************************)
(* list_owned_repos (github.rs:151-203)                                    *)
(***************************************************************************)
\* serde's derived Deserialize at the member where the path breaks: an
\* Option member that is absent or null is None; a member that is not an
\* Option must be there and not null; a value of another type is an error
\* for both
deserialize_gap(member, gap) ==
    IF gap # "wrong" /\ member.optional THEN Ok(None)
    ELSE Err([member |-> member.name, gap |-> gap])

\* serde_json::from_value of a body in which the path, or the path within a
\* node of the list, breaks
from_value_broken(path, node_path, data) ==
    CASE data.shape = "chain" -> deserialize_gap(path[data.depth + 1], data.gap)
      [] data.shape = "bad_node" -> deserialize_gap(node_path[data.depth + 1], data.gap)
      [] OTHER -> Err([member |-> "", gap |-> "wrong"])

\* github.rs:187-202: the typed decode of the body and the names in it
decode_repo_list(json) ==
    IF json.data.shape = "list"
    THEN Ok(IF json.data.nodes.some THEN json.data.nodes.v ELSE <<>>)
    ELSE IF from_value_broken(ListOwnedReposPath, RepoNameNodePath, json.data).tag = "ok"
         THEN Ok(<<>>)
         ELSE Err(ErrDeserialize("list_owned_repos"))

\* github.rs:187-202
list_owned_repos_result(g) ==
    IF g.tag = "err" THEN g ELSE decode_repo_list(g.val)

(***************************************************************************)
(* The single-statistic fetches (github.rs:111-148, 206-390)               *)
(***************************************************************************)
\* `as u32` of a u64: the low 32 bits
as_u32(u) == <<u[1], u[2]>>

\* faulty variant: a required member that is absent or null read as 0
count_of_lenient(path, what, json) ==
    IF json.data.shape = "count" THEN Ok(as_u32(json.data.totalCount))
    ELSE IF json.data.gap # "wrong" THEN Ok(as_u32(U64_ZERO))
    ELSE Err(ErrDeserialize(what))

\* github.rs:137-147 (and 232-242, 275-285, 322-332): the typed decode of
\* the body, the Option chain with unwrap_or(0), and the cast
count_of(path, what, json) ==
    IF json.data.shape = "count" THEN Ok(as_u32(json.data.totalCount))
    ELSE IF from_value_broken(path, <<>>, json.data).tag = "ok"
         THEN Ok(as_u32(U64_ZERO))
         ELSE Err(ErrDeserialize(what))

\* github.rs:136-147
owned_repo_count_result(g) ==
    IF g.tag = "err" THEN g
    ELSE count_of(OwnedRepoCountPath, "owned_repo_count", g.val)

\* github.rs:231-242
follower_count_result(g) ==
    IF g.tag = "err" THEN g
    ELSE count_of(FollowerCountPath, "follower_count", g.val)

\* github.rs:274-285
contributed_repos_result(g) ==
    IF g.tag = "err" THEN g
    ELSE count_of(ContributedReposPath, "contributed_repos", g.val)

\* github.rs:321-332
commit_count_result(g) ==
    IF g.tag = "err" THEN g
    ELSE count_of(CommitCountPath, "commit_count", g.val)

Panic(what) == [tag |-> "panic", what |-> what]

\* github.rs:377-387: `total += n` over the nodes.  The sum is a plain u64
\* addition: when it passes the largest u64, a build with overflow checks
\* panics and a build without them wraps.
RECURSIVE star_total(_, _, _)
star_total(t, cs, overflow_checks) ==
    IF cs = <<>> THEN Ok(t)
    ELSE IF U64AddCarry(t, Head(cs)).carry > 0 /\ overflow_checks
         THEN Panic("attempt to add with overflow")
         ELSE star_total(wrapping_add(t, Head(cs)), Tail(cs), overflow_checks)

\* github.rs:373-389
star_count_result(g, overflow_checks) ==
    IF g.tag = "err" THEN g
    ELSE IF g.val.data.shape = "stars"
         THEN LET t == star_total(U64_ZERO, g.val.data.counts, overflow_checks)
              IN  IF t.tag = "ok" THEN Ok(as_u32(t.val)) ELSE t
         ELSE IF from_value_broken(StarCountPath, StarNodePath, g.val.data).tag = "ok"
              THEN Ok(as_u32(U64_ZERO))
              ELSE Err(ErrDeserialize("star_count"))

(***************************************************************************)
(* repo_loc (github.rs:393-523)                                            *)
(***************************************************************************)
\* faulty variant: a record without author counted as the queried user's
author_login_or_username(node) == IF node.login.some THEN node.login.v ELSE Username

\* github.rs:499-503
author_login(node) == IF node.login.some THEN node.login.v ELSE ""

\* faulty variant: the author is not compared with the username
add_node_any_author(s, node, username) ==
    LocStats(saturating_add(s.additions, unwrap_or_0(node.additions)),
             saturating_add(s.deletions, unwrap_or_0(node.deletions)),
             saturating_add(s.commits, U64_ONE))

\* github.rs:505-511: the body of the for loop
add_node(s, node, username) ==
    IF author_login(node) = username
    THEN LocStats(saturating_add(s.additions, unwrap_or_0(node.additions)),
                  saturating_add(s.deletions, unwrap_or_0(node.deletions)),
                  saturating_add(s.commits, U64_ONE))
    ELSE s

\* github.rs:497-513: the for loop over the nodes of one page
RECURSIVE add_nodes(_, _, _)
add_nodes(s, nodes, username) ==
    IF nodes = <<>> THEN s
    ELSE add_nodes(add_node(s, Head(nodes), username), Tail(nodes), username)

\* github.rs:497
page_nodes(page) == IF page.nodes.some THEN page.nodes.v ELSE <<>>

\* faulty variant: a missing history container read as an empty last page
decode_history_defaulting(json, username, r) ==
    IF json.data.shape = "page" THEN Ok(json.data)
    ELSE IF from_value_broken(HistoryPath, <<>>, json.data).tag = "ok"
         THEN Ok([shape |-> "page", hasNextPage |-> FALSE, endCursor |-> None,
                  nodes |-> None])
         ELSE Err(ErrDeserialize("repo_loc (history)"))

\* github.rs:484-495: the typed decode and the Option chain down to history
decode_history(json, username, r) ==
    IF json.data.shape = "page" THEN Ok(json.data)
    ELSE IF from_value_broken(HistoryPath, <<>>, json.data).tag = "ok"
         THEN Err(ErrMissingHistory(username, r))
         ELSE Err(ErrDeserialize("repo_loc (history)"))

\* github.rs:483-495: the page of this pass of the loop, or the error that
\* ends repo_loc
history_page(g, username, r) ==
    IF g.tag = "err" THEN g ELSE decode_history(g.val, username, r)

\* faulty variant: a page is never taken as the last one
has_next_page_always(page) == TRUE

\* github.rs:515: history.page_info.has_next_page
has_next_page(page) == page.hasNextPage

\* faulty variant: a page without end cursor leaves the cursor where it was
next_cursor_or_last(c, page) == IF page.endCursor.some THEN page.endCursor ELSE c

\* github.rs:519: cursor = history.page_info.end_cursor
next_cursor(c, page) == page.endCursor

\* github.rs:446-483: the head of the loop, up to the graphql call
RepoLocRequest ==
    /\ rpc = "loop"
    /\ scope = "forever" \/ pages < PagesCap
    /\ GraphqlCall(HistoryQuery(Username, repo, cursor))
    /\ rpc' = "await"
    /\ pages' = IF pages > PagesCap THEN pages ELSE pages + 1
    /\ UNCHANGED <<scope, peer, mvars, repo, stats, cursor, rresult, seen, sent, tvars>>

\* github.rs:483-522: from the return of graphql to the next pass or the return
RepoLocPage ==
    /\ rpc = "await"
    /\ gpc = "ret"
    /\ LET h == history_page(gresult, Username, repo)
       IN  IF h.tag = "err"
           THEN /\ rresult' = h
                /\ rpc' = "ret"
                /\ UNCHANGED <<stats, cursor, seen>>
           ELSE LET page == h.val
                    acc == add_nodes(stats, page_nodes(page), Username)
                IN  /\ stats' = acc
                    /\ seen' = seen \o page_nodes(page)
                    /\ IF ~has_next_page(page)
                       THEN /\ rresult' = Ok(acc)
                            /\ rpc' = "ret"
                            /\ UNCHANGED cursor
                       ELSE /\ cursor' = next_cursor(cursor, page)
                            /\ rpc' = "loop"
                            /\ UNCHANGED rresult
    /\ GraphqlTaken
    /\ UNCHANGED <<scope, peer, mvars, repo, pages, sent, tvars>>

(***************************************************************************)
(* total_loc (github.rs:526-545)                                           *)
(***************************************************************************)
\* faulty variant: the total assigned instead of added to
add_loc_assign(t, loc) == loc

\* github.rs:533-535
add_loc(t, loc) ==
    LocStats(saturating_add(t.additions, loc.additions),
             saturating_add(t.deletions, loc.deletions),
             saturating_add(t.commits, loc.commits))

\* github.rs:527: total_loc calls list_owned_repos, which calls graphql
TotalLocStart ==
    /\ tpc = "start"
    /\ tpc' = "list"
    /\ listings' = listings + 1
    /\ GraphqlCall(ListQuery(Username))
    /\ UNCHANGED <<scope, peer, mvars, repos, idx, total, tresult, started, outcomes, warnings, rvars>>

\* faulty variant: a failed listing taken as the empty listing
TotalLocListedLenient ==
    /\ tpc = "list"
    /\ gpc = "ret"
    /\ LET l == list_owned_repos_result(gresult)
       IN  /\ repos' = IF l.tag = "err" THEN <<>> ELSE l.val
           /\ total' = LocStatsDefault
           /\ tpc' = "loop"
           /\ UNCHANGED tresult
    /\ GraphqlTaken
    /\ UNCHANGED <<scope, peer, mvars, idx, started, outcomes, listings, warnings, rvars>>

\* github.rs:527-528: the listing or the error comes back
TotalLocListed ==
    /\ tpc = "list"
    /\ gpc = "ret"
    /\ LET l == list_owned_repos_result(gresult)
       IN  IF l.tag = "err"
           THEN /\ tresult' = l
                /\ tpc' = "failed"
                /\ UNCHANGED <<repos, total>>
           ELSE /\ repos' = l.val
                /\ total' = LocStatsDefault
                /\ tpc' = "loop"
                /\ UNCHANGED tresult
    /\ GraphqlTaken
    /\ UNCHANGED <<scope, peer, mvars, idx, started, outcomes, listings, warnings, rvars>>

\* github.rs:530-531, 443-444: the loop calls repo_loc for the next repository
TotalLocNext ==
    /\ tpc = "loop"
    /\ idx < Len(repos)
    /\ tpc' = "repo"
    /\ started' = Append(started, repos[idx + 1])
    /\ repo' = repos[idx + 1]
    /\ rpc' = "loop"
    /\ stats' = LocStatsDefault
    /\ cursor' = None
    /\ rresult' = NoResult
    /\ seen' = <<>>
    /\ pages' = 0
    /\ sent' = 0
    /\ UNCHANGED <<scope, peer, mvars, repos, idx, total, tresult, outcomes, listings, warnings, gvars>>

\* what the observer keeps of a finished repo_loc call: whether it succeeded,
\* the LocStats it returned, and whether a failed call had counted commits
Outcome(r, partial) ==
    IF r.tag = "ok" THEN [ok |-> TRUE, loc |-> r.val, lost |-> FALSE]
    ELSE [ok |-> FALSE, loc |-> LocStatsDefault,
          lost |-> partial.commits # U64_ZERO]

\* faulty variant: the error of one repository returned with `?`
TotalLocCollectAbort ==
    /\ tpc = "repo"
    /\ rpc = "ret"
    /\ IF rresult.tag = "ok"
       THEN /\ total' = add_loc(total, rresult.val)
            /\ tpc' = "loop"
            /\ UNCHANGED tresult
       ELSE /\ tresult' = rresult
            /\ tpc' = "failed"
            /\ UNCHANGED total
    /\ outcomes' = Append(outcomes, Outcome(rresult, stats))
    /\ idx' = idx + 1
    /\ rpc' = "idle"
    /\ repo' = ""
    /\ stats' = LocStatsDefault
    /\ cursor' = None
    /\ rresult' = NoResult
    /\ seen' = <<>>
    /\ pages' = 0
    /\ sent' = 0
    /\ UNCHANGED <<scope, peer, mvars, repos, started, listings, warnings, gvars>>

\* faulty variant: what a failed repository had counted is added all the same
TotalLocCollectPartial ==
    /\ tpc = "repo"
    /\ rpc = "ret"
    /\ IF rresult.tag = "ok"
       THEN /\ total' = add_loc(total, rresult.val)
            /\ UNCHANGED warnings
       ELSE /\ warnings' = warnings + 1
            /\ total' = add_loc(total, stats)
    /\ outcomes' = Append(outcomes, Outcome(rresult, stats))
    /\ idx' = idx + 1
    /\ tpc' = "loop"
    /\ rpc' = "idle"
    /\ repo' = ""
    /\ stats' = LocStatsDefault
    /\ cursor' = None
    /\ rresult' = NoResult
    /\ seen' = <<>>
    /\ pages' = 0
    /\ sent' = 0
    /\ UNCHANGED <<scope, peer, mvars, repos, tresult, started, listings, gvars>>

\* github.rs:531-541: the match on what repo_loc returned
TotalLocCollect ==
    /\ tpc = "repo"
    /\ rpc = "ret"
    /\ IF rresult.tag = "ok"
       THEN /\ total' = add_loc(total, rresult.val)
            /\ UNCHANGED warnings
       ELSE /\ warnings' = warnings + 1
            /\ UNCHANGED total
    /\ outcomes' = Append(outcomes, Outcome(rresult, stats))
    /\ idx' = idx + 1
    /\ tpc' = "loop"
    /\ rpc' = "idle"
    /\ repo' = ""
    /\ stats' = LocStatsDefault
    /\ cursor' = None
    /\ rresult' = NoResult
    /\ seen' = <<>>
    /\ pages' = 0
    /\ sent' = 0
    /\ UNCHANGED <<scope, peer, mvars, repos, tresult, started, listings, gvars>>

\* github.rs:544
TotalLocReturn ==
    /\ tpc = "loop"
    /\ idx = Len(repos)
    /\ tresult' = Ok(total)
    /\ tpc' = "done"
    /\ UNCHANGED <<scope, peer, mvars, repos, idx, total, started, outcomes, listings, warnings,
                   rvars, gvars>>

(***************************************************************************)
(* main (main.rs:13-46)                                                    *)
(***************************************************************************)
\* github.rs:31-32
ErrNoToken == [kind |-> "no_token"]

\* main.rs:39-40: the error of fs::write
ErrIo(path) == [kind |-> "io", path |-> path]

\* `as i64` of a u64: the same 64 bits, negative when the top bit is set
as_i64(u) == [neg |-> u[4] >= 2^15, bits |-> u]

U64Not(u) == [i \in 1..4 |-> Base - 1 - u[i]]

\* the difference modulo 2^64
wrapping_sub(a, b) == wrapping_add(wrapping_add(a, U64Not(b)), U64_ONE)

\* main.rs:32: a - b on i64.  When the difference leaves the i64 range, a
\* build with overflow checks panics and a build without them wraps.
i64_sub(a, b, overflow_checks) ==
    LET d == as_i64(wrapping_sub(a.bits, b.bits))
    IN  IF a.neg # b.neg /\ d.neg # a.neg /\ overflow_checks
        THEN Panic("attempt to subtract with overflow")
        ELSE Ok(d)

\* stats.rs:1-11, main.rs:24-33
Stats(cs, loc, loc_total) ==
    [repos |-> cs[1], stars |-> cs[2], followers |-> cs[3],
     commits_total |-> cs[4], contributed_repos |-> cs[5],
     loc_add |-> as_i64(loc.additions), loc_del |-> as_i64(loc.deletions),
     loc_total |-> loc_total]

\* main.rs:25-29: the five fetches, in the order of the calls
StatFetches ==
    <<"owned_repo_count", "star_count", "follower_count", "commit_count",
      "contributed_repos">>

FetchQuery(name, username) ==
    CASE name = "owned_repo_count" -> OwnedRepoCountQuery(username)
      [] name = "star_count" -> StarCountQuery(username)
      [] name = "follower_count" -> FollowerCountQuery(username)
      [] name = "commit_count" -> CommitCountQuery(username)
      [] name = "contributed_repos" -> ContributedReposQuery(username)

fetch_result(name, g, overflow_checks) ==
    CASE name = "owned_repo_count" -> owned_repo_count_result(g)
      [] name = "star_count" -> star_count_result(g, overflow_checks)
      [] name = "follower_count" -> follower_count_result(g)
      [] name = "commit_count" -> commit_count_result(g)
      [] name = "contributed_repos" -> contributed_repos_result(g)

\* main.rs:15-23: the client is built and total_loc is called
MainStart ==
    /\ mpc = "start"
    /\ \E token \in BOOLEAN :
          IF token
          THEN /\ mpc' = "total_loc"
               /\ tpc' = "start"
               /\ UNCHANGED <<mresult, failed_at>>
          ELSE /\ mpc' = "failed"
               /\ mresult' = Err(ErrNoToken)
               /\ failed_at' = "new"
               /\ UNCHANGED tpc
    /\ UNCHANGED <<scope, peer, fetch, counts, snapshot, written, repos, idx, total,
                   tresult, started, outcomes, listings, warnings, rvars, gvars>>

\* faulty variant: main goes on after total_loc failed
MainTotalLocLenient ==
    /\ mpc = "total_loc"
    /\ tpc \in {"done", "failed"}
    /\ mpc' = "fetch"
    /\ UNCHANGED <<scope, peer, fetch, counts, snapshot, written, mresult, failed_at,
                   tvars, rvars, gvars>>

\* main.rs:23: total_loc has returned
MainTotalLoc ==
    /\ mpc = "total_loc"
    /\ tpc \in {"done", "failed"}
    /\ IF tresult.tag = "err"
       THEN /\ mpc' = "failed"
            /\ mresult' = tresult
            /\ failed_at' = "total_loc"
       ELSE /\ mpc' = "fetch"
            /\ UNCHANGED <<mresult, failed_at>>
    /\ UNCHANGED <<scope, peer, fetch, counts, snapshot, written, tvars, rvars, gvars>>

\* main.rs:25-29: the next fetch calls graphql
MainFetch ==
    /\ mpc = "fetch"
    /\ GraphqlCall(FetchQuery(StatFetches[fetch + 1], Username))
    /\ mpc' = "await"
    /\ UNCHANGED <<scope, peer, fetch, counts, snapshot, written, mresult, failed_at,
                   tvars, rvars>>

\* faulty variant: a failed fetch counted as 0
MainFetchedDefaulting ==
    /\ mpc = "await"
    /\ gpc = "ret"
    /\ \E overflow_checks \in BOOLEAN :
          LET name == StatFetches[fetch + 1]
              r == fetch_result(name, gresult, overflow_checks)
          IN  /\ counts' = Append(counts, IF r.tag = "ok" THEN r.val
                                          ELSE as_u32(U64_ZERO))
              /\ fetch' = fetch + 1
              /\ mpc' = IF fetch + 1 = Len(StatFetches) THEN "stats" ELSE "fetch"
              /\ UNCHANGED <<mresult, failed_at>>
    /\ GraphqlTaken
    /\ UNCHANGED <<scope, peer, snapshot, written, tvars, rvars>>

\* main.rs:25-29: the fetch has returned, `?` applied to what it returned
MainFetched ==
    /\ mpc = "await"
    /\ gpc = "ret"
    /\ \E overflow_checks \in BOOLEAN :
          LET name == StatFetches[fetch + 1]
              r == fetch_result(name, gresult, overflow_checks)
          IN  IF r.tag = "ok"
              THEN /\ counts' = Append(counts, r.val)
                   /\ fetch' = fetch + 1
                   /\ mpc' = IF fetch + 1 = Len(StatFetches) THEN "stats"
                             ELSE "fetch"
                   /\ UNCHANGED <<mresult, failed_at>>
              ELSE /\ mpc' = IF r.tag = "panic" THEN "panicked" ELSE "failed"
                   /\ mresult' = r
                   /\ failed_at' = name
                   /\ UNCHANGED <<counts, fetch>>
    /\ GraphqlTaken
    /\ UNCHANGED <<scope, peer, snapshot, written, tvars, rvars>>

\* main.rs:24-37: the Stats is built and rendered
MainStats ==
    /\ mpc = "stats"
    /\ \E overflow_checks \in BOOLEAN :
          LET loc == tresult.val
              d == i64_sub(as_i64(loc.additions), as_i64(loc.deletions),
                           overflow_checks)
          IN  IF d.tag = "ok"
              THEN /\ snapshot' = Ok(Stats(counts, loc, d.val))
                   /\ mpc' = "dark"
                   /\ UNCHANGED <<mresult, failed_at>>
              ELSE /\ mpc' = "panicked"
                   /\ mresult' = d
                   /\ failed_at' = "stats"
                   /\ UNCHANGED snapshot
    /\ UNCHANGED <<scope, peer, fetch, counts, written, tvars, rvars, gvars>>

\* main.rs:39: fs::write of the dark document, which the file system may refuse
MainWriteDark ==
    /\ mpc = "dark"
    /\ \E ok \in BOOLEAN :
          IF ok
          THEN /\ written' = Append(written, "dark_mode.svg")
               /\ mpc' = "light"
               /\ UNCHANGED <<mresult, failed_at>>
          ELSE /\ mpc' = "failed"
               /\ mresult' = Err(ErrIo("dark_mode.svg"))
               /\ failed_at' = "write"
               /\ UNCHANGED written
    /\ UNCHANGED <<scope, peer, fetch, counts, snapshot, tvars, rvars, gvars>>

\* main.rs:40-45: fs::write of the light document, and the return
MainWriteLight ==
    /\ mpc = "light"
    /\ \E ok \in BOOLEAN :
          IF ok
          THEN /\ written' = Append(written, "light_mode.svg")
               /\ mpc' = "done"
               /\ mresult' = Ok("unit")
               /\ UNCHANGED failed_at
          ELSE /\ mpc' = "failed"
               /\ mresult' = Err(ErrIo("light_mode.svg"))
               /\ failed_at' = "write"
               /\ UNCHANGED written
    /\ UNCHANGED <<scope, peer, fetch, counts, snapshot, tvars, rvars, gvars>>

(***************************************************************************)
(* Two operations of one client at the same time.  GithubClient is Clone   *)
(* and its operations take &self (github.rs:16-20, 41): a second task may  *)
(* call an operation while the first is inside graphql.  All a call of     *)
(* graphql keeps is in its locals (github.rs:43-44); the client holds the  *)
(* token and the HTTP client and nothing else.                             *)
(***************************************************************************)
\* the second task outside graphql
PeerIdle ==
    [gpc |-> "idle", query |-> NoQuery, attempt |-> 0, delay |-> NoDelay,
     gresult |-> NoResult, resp |-> NoResp, requests |-> 0,
     returned |-> NoResult]

\* github.rs:206-230: the first task calls follower_count
FirstCall ==
    /\ mpc = "join"
    /\ gpc = "idle"
    /\ counts = <<>>
    /\ mresult = NoResult
    /\ GraphqlCall(FollowerCountQuery(Username))
    /\ UNCHANGED <<scope, peer, mvars, tvars, rvars>>

\* github.rs:231-242: follower_count returns to the first task
FirstReturn ==
    /\ mpc = "join"
    /\ gpc = "ret"
    /\ LET r == follower_count_result(gresult)
       IN  IF r.tag = "ok"
           THEN counts' = <<r.val>> /\ UNCHANGED mresult
           ELSE mresult' = r /\ UNCHANGED counts
    /\ GraphqlTaken
    /\ UNCHANGED <<scope, peer, mpc, fetch, snapshot, written, failed_at, tvars, rvars>>

\* github.rs:111-135, 43-44: the second task calls owned_repo_count
PeerCall ==
    /\ mpc = "join"
    /\ peer.gpc = "idle"
    /\ peer.returned = NoResult
    /\ peer' = [PeerIdle EXCEPT !.gpc = "send",
                                !.query = OwnedRepoCountQuery(Username)]
    /\ UNCHANGED <<scope, mvars, tvars, rvars, gvars>>

\* github.rs:47-107: one attempt of the second task's call
PeerAttempt ==
    /\ peer.gpc = "send"
    /\ \E r \in Responses(peer.query) :
        LET att == peer.attempt + 1
            out == graphql_step(r, att)
        IN  peer' = [peer EXCEPT !.attempt = att,
                                 !.requests = @ + 1,
                                 !.resp = r,
                                 !.gpc = out.next,
                                 !.gresult = out.result,
                                 !.delay = out.delay]
    /\ UNCHANGED <<scope, mvars, tvars, rvars, gvars>>

\* github.rs:92-93, 99-100: the sleep of the second task's call is over
PeerWake ==
    /\ peer.gpc = "sleep"
    /\ peer' = [peer EXCEPT !.gpc = "send"]
    /\ UNCHANGED <<scope, mvars, tvars, rvars, gvars>>

\* github.rs:136-147: owned_repo_count returns to the second task
PeerReturn ==
    /\ peer.gpc = "ret"
    /\ peer' = [PeerIdle EXCEPT !.returned = owned_repo_count_result(peer.gresult)]
    /\ UNCHANGED <<scope, mvars, tvars, rvars, gvars>>

(***************************************************************************)
(* Specifications                                                          *)
(***************************************************************************)
\* everything but the two program counters of the entry points
InitState ==
    /\ peer = PeerIdle
    /\ fetch = 0
    /\ counts = <<>>
    /\ snapshot = NoResult
    /\ written = <<>>
    /\ mresult = NoResult
    /\ failed_at = ""
    /\ repos = <<>>
    /\ idx = 0
    /\ total = LocStatsDefault
    /\ tresult = NoResult
    /\ started = <<>>
    /\ outcomes = <<>>
    /\ listings = 0
    /\ warnings = 0
    /\ rpc = "idle"
    /\ repo = ""
    /\ stats = LocStatsDefault
    /\ cursor = None
    /\ rresult = NoResult
    /\ seen = <<>>
    /\ pages = 0
    /\ sent = 0
    /\ answers = <<>>
    /\ gpc = "idle"
    /\ query = NoQuery
    /\ attempt = 0
    /\ delay = NoDelay
    /\ gresult = NoResult
    /\ resp = NoResp
    /\ requests = 0
    /\ sleeps = 0
    /\ n429 = 0
    /\ n5xx = 0

\* total_loc called on its own
InitProgram == mpc = "idle" /\ tpc = "start" /\ InitState

Next ==
    \/ TotalLocStart
    \/ TotalLocListed
    \/ TotalLocNext
    \/ TotalLocCollect
    \/ TotalLocReturn
    \/ RepoLocRequest
    \/ RepoLocPage
    \/ GraphqlAttempt
    \/ GraphqlWake

\* the retry policy in depth: every status, header and `errors` member
Init == scope = "retry" /\ InitProgram
Spec == Init /\ [][Next]_vars

\* the paging in depth: every split of the records over the pages
InitPaging == scope = "paging" /\ InitProgram
SpecPaging == InitPaging /\ [][Next]_vars

\* the aggregation in depth: several repositories, large counters
InitAggregate == scope = "aggregate" /\ InitProgram
SpecAggregate == InitAggregate /\ [][Next]_vars

\* the authors in depth: records of others, and without author
InitAuthors == scope = "authors" /\ InitProgram
SpecAuthors == InitAuthors /\ [][Next]_vars

\* the retry budget across the calls of a run
InitBudget == scope = "budget" /\ InitProgram
SpecBudget == InitBudget /\ [][Next]_vars

\* the loop of repo_loc without end.  The runtime polls the one task of
\* main until it is over (main.rs:13), a sleep ends, and every request is
\* answered, by a response or a transport error: whatever step the program
\* can take is taken
InitForever == scope = "forever" /\ InitProgram
SpecForever == InitForever /\ [][Next]_vars /\ WF_vars(Next)

\* two tasks on one client, their steps interleaved in any order
NextConcurrent ==
    \/ FirstCall
    \/ GraphqlAttempt
    \/ GraphqlWake
    \/ FirstReturn
    \/ PeerCall
    \/ PeerAttempt
    \/ PeerWake
    \/ PeerReturn

InitConcurrent == scope = "concurrent" /\ mpc = "join" /\ tpc = "idle" /\ InitState
SpecConcurrent == InitConcurrent /\ [][NextConcurrent]_vars

\* a run of main: total_loc, the five count fetches, the two documents
NextMain ==
    \/ Next
    \/ MainStart
    \/ MainTotalLoc
    \/ MainFetch
    \/ MainFetched
    \/ MainStats
    \/ MainWriteDark
    \/ MainWriteLight

InitMain == scope = "main" /\ mpc = "start" /\ tpc = "idle" /\ InitState
SpecMain == InitMain /\ [][NextMain]_vars

\* a run of main over a repository with very large counters
InitSnapshot == scope = "snapshot" /\ mpc = "start" /\ tpc = "idle" /\ InitState
SpecSnapshot == InitSnapshot /\ [][NextMain]_vars

(***************************************************************************)
(* Claims about graphql, checked under Spec                                *)
(***************************************************************************)
\* the last response was decoded and its body has no `errors` member
DecodedNoErrors == resp.kind = "json" /\ resp.json.errors = "absent"

\* C1: whatever the server answers, a graphql call issues at most 4 (MAX_RETRIES)
\* transport requests; once the 4th is answered the call has returned, it
\* neither sleeps nor sends again.
C1_AtMostFourRequests ==
    /\ requests <= MAX_RETRIES
    /\ requests = attempt
    /\ requests = MAX_RETRIES => gpc = "ret" /\ gresult.tag \in {"ok", "err"}

\* a call that used all 4 requests on a mix of 429 and 5xx answers
C1_Witness ==
    /\ gpc = "ret"
    /\ requests = MAX_RETRIES
    /\ n429 = 2
    /\ n5xx = 2

\* C2: when the decoded body of a response has a top-level `errors` member,
\* the call has returned the application error built from it, on that
\* attempt, whatever the status: it is not sleeping and will not send again.
C2_ErrorsFailAtOnce ==
    (resp.kind = "json" /\ resp.json.errors # "absent")
        => /\ gpc = "ret"
           /\ gresult = Err(ErrGraphqlErrors(resp.json.errors))
           /\ requests = attempt
           /\ sleeps = attempt - 1

\* an `errors` member under a 5xx status, on the third attempt
C2_Witness ==
    /\ resp.kind = "json"
    /\ resp.json.errors = "list"
    /\ resp.status = 503
    /\ attempt = 3
    /\ gresult.tag = "err"
    /\ gresult.err.kind = "graphql_errors"

\* C3: when k responses with status 429 (k <= 3) are followed by a success
\* response without `errors`, the call has returned the body of that response
\* after exactly k sleeps and k + 1 requests.
C3_SuccessAfter429s ==
    (DecodedNoErrors /\ resp.status \in 200..299 /\ n429 = attempt - 1)
        => /\ gpc = "ret"
           /\ gresult = Ok(resp.json)
           /\ n429 <= 3
           /\ sleeps = n429
           /\ requests = n429 + 1

\* three 429 answers, then the success
C3_Witness ==
    /\ DecodedNoErrors
    /\ resp.status = 200
    /\ n429 = 3
    /\ gresult = Ok(resp.json)

\* C4: when every response is a 5xx without `errors`, the call goes on after
\* the first three and fails on the 4th request with the error that carries
\* the status and the body of that last response.
C4_ServerErrorsExhaust ==
    (DecodedNoErrors /\ attempt >= 1 /\ n5xx = attempt)
        => IF attempt < MAX_RETRIES
           THEN gpc \in {"sleep", "send"}
           ELSE /\ gpc = "ret"
                /\ requests = 4
                /\ gresult = Err(ErrHttp(resp.status, resp.json))

\* four server errors, the last one a 503 with the body m2
C4_Witness ==
    /\ DecodedNoErrors
    /\ n5xx = 4
    /\ resp.status = 503
    /\ resp.json.data.text = "m2"
    /\ gresult.tag = "err"
    /\ gresult.err.kind = "http"
    /\ gresult.err.status = 503
    /\ gresult.err.body.data.text = "m2"

\* the call is in the sleep that follows the last response, or past it and
\* about to send the next request
SleepThenRetry ==
    \/ gpc = "sleep" /\ sleeps = attempt - 1
    \/ gpc = "send" /\ sleeps = attempt

\* C5 as stated: a response with status 429 on the 4th attempt makes the call
\* fail with the rate-limit error; on attempts 1 to 3 it always leads to a
\* sleep and a retry.  (Stated of the responses whose
\* body decodes.)
C5_Original ==
    (resp.kind = "json" /\ resp.status = 429)
        => IF attempt = MAX_RETRIES
           THEN gpc = "ret" /\ gresult = Err(ErrRateLimited)
           ELSE SleepThenRetry

\* C5 amended: a response with status 429 whose body decodes as JSON and has
\* no `errors` member makes the call fail with the rate-limit error (not the
\* status-and-body error), after 3 sleeps, when it answers the 4th attempt;
\* on attempts 1 to 3 it leads to a sleep and a retry.
C5_RateLimitOn429 ==
    (DecodedNoErrors /\ resp.status = 429)
        => IF attempt = MAX_RETRIES
           THEN /\ gpc = "ret"
                /\ gresult = Err(ErrRateLimited)
                /\ gresult.err.kind # "http"
                /\ sleeps = MAX_RETRIES - 1
           ELSE /\ attempt \in 1..3
                /\ SleepThenRetry

\* the 4th attempt answered 429: the rate-limit error
C5_Witness ==
    /\ DecodedNoErrors
    /\ resp.status = 429
    /\ attempt = MAX_RETRIES
    /\ gresult = Err(ErrRateLimited)

\* C6 as stated: the rate-limit error carries the number of attempts made.
C6_Original ==
    (gresult.tag = "err" /\ gresult.err.kind = "rate_limited")
        => /\ "attempts" \in DOMAIN gresult.err
           /\ gresult.err.attempts = attempt

\* C6 amended: the rate-limit error is a fixed message with no value in it;
\* it is returned only when exactly 4 (MAX_RETRIES) attempts were made.
C6_RateLimitErrorIsFixed ==
    (gresult.tag = "err" /\ gresult.err.kind = "rate_limited")
        => /\ DOMAIN gresult.err = {"kind"}
           /\ attempt = MAX_RETRIES
           /\ requests = MAX_RETRIES
           /\ resp.status = 429

\* a call that ended in the rate-limit error
C6_Witness ==
    /\ gpc = "ret"
    /\ gresult = Err(ErrRateLimited)
    /\ n429 = 4

(***************************************************************************)
(* Sums as the claims state them: the exact sum of the values, cut at the  *)
(* largest u64 once, at the end.  The exact sum is kept in five limbs.     *)
(***************************************************************************)
\* w + u, for w of five limbs and u a u64
WideAdd(w, u) ==
    LET s1 == w[1] + u[1]
        s2 == w[2] + u[2] + (s1 \div Base)
        s3 == w[3] + u[3] + (s2 \div Base)
        s4 == w[4] + u[4] + (s3 \div Base)
    IN  <<s1 % Base, s2 % Base, s3 % Base, s4 % Base, w[5] + (s4 \div Base)>>

RECURSIVE WideSum(_)
WideSum(us) ==
    IF us = <<>> THEN <<0, 0, 0, 0, 0>>
    ELSE WideAdd(WideSum(Tail(us)), Head(us))

\* min(sum of us, 2^64 - 1)
CutSum(us) ==
    LET w == WideSum(us)
    IN  IF w[5] > 0 THEN U64_MAX ELSE <<w[1], w[2], w[3], w[4]>>

Amount(o) == IF o.some THEN o.v ELSE U64_ZERO

(***************************************************************************)
(* Claims about repo_loc, checked under SpecPaging                         *)
(***************************************************************************)
\* the records of recs whose author login is the queried username
Matching(recs) ==
    SelectSeq(recs, LAMBDA n : n.login.some /\ n.login.v = Username)

\* the LocStats of a flat sequence of records, whatever pages they came in
StatsOfRecords(recs) ==
    LET m == Matching(recs)
    IN  LocStats(CutSum([i \in 1..Len(m) |-> Amount(m[i].additions)]),
                 CutSum([i \in 1..Len(m) |-> Amount(m[i].deletions)]),
                 U64Of(Len(m)))

\* C7: the LocStats repo_loc accumulates, and returns after the first page
\* without a next page, is that of the records of all its pages taken as one
\* flat sequence: the commit count is the number of records whose author
\* login is the username, and the page boundaries do not matter.
C7_CountIsMatchingRecords ==
    /\ rpc # "idle" => stats = StatsOfRecords(seen)
    /\ (rpc = "ret" /\ rresult.tag = "ok")
        => /\ rresult.val = StatsOfRecords(seen)
           /\ rresult.val.commits = U64Of(Len(Matching(seen)))

\* three records over three page requests, two of them by the user
C7_Witness ==
    /\ rpc = "ret"
    /\ rresult.tag = "ok"
    /\ pages = 3
    /\ Len(seen) = 3
    /\ Len(Matching(seen)) = 2
    /\ rresult.val.commits = U64Of(2)

(***************************************************************************)
(* Claims about total_loc, checked under SpecAggregate                     *)
(***************************************************************************)
IsPrefix(a, b) == Len(a) <= Len(b) /\ a = SubSeq(b, 1, Len(a))

\* C8: once the listing is fetched, total_loc calls repo_loc once for each
\* listed repository, in list order, and then returns Ok: a failed
\* repository neither ends total_loc with an error nor skips a later one.
C8_EveryRepositoryAttempted ==
    /\ IsPrefix(started, repos)
    /\ Len(outcomes) = idx
    /\ Len(started) = idx + (IF tpc = "repo" THEN 1 ELSE 0)
    /\ tpc = "failed" => started = <<>> /\ listings = 1
    /\ tpc = "done" => /\ started = repos
                       /\ Len(outcomes) = Len(repos)
                       /\ tresult.tag = "ok"

\* three repositories: the first and the last fail, the second succeeds
C8_Witness ==
    /\ tpc = "done"
    /\ Len(repos) = 3
    /\ ~outcomes[1].ok
    /\ outcomes[2].ok
    /\ ~outcomes[3].ok
    /\ warnings = 2
    /\ tresult.tag = "ok"

\* the outcomes of the repositories whose repo_loc succeeded
Succeeded(outs) == SelectSeq(outs, LAMBDA o : o.ok)

\* the sum, cut at the largest u64, of the LocStats of the succeeded ones
SumOfSucceeded(outs) ==
    LET ok == Succeeded(outs)
    IN  LocStats(CutSum([i \in 1..Len(ok) |-> ok[i].loc.additions]),
                 CutSum([i \in 1..Len(ok) |-> ok[i].loc.deletions]),
                 CutSum([i \in 1..Len(ok) |-> ok[i].loc.commits]))

\* C9: the LocStats total_loc returns is the saturating sum of the LocStats
\* of exactly the repositories whose repo_loc succeeded; a failed one adds
\* nothing, whatever it had counted before it failed.
C9_TotalIsSumOfSucceeded ==
    /\ tpc \in {"loop", "repo", "done"} => total = SumOfSucceeded(outcomes)
    /\ tpc = "done" => tresult = Ok(SumOfSucceeded(outcomes))

\* a repository failed after it had counted a commit, two others succeeded
\* and their additions pass the largest u64
C9_Witness ==
    /\ tpc = "done"
    /\ \E i \in 1..Len(outcomes) : outcomes[i].lost
    /\ tresult.val.commits = U64Of(2)
    /\ tresult.val.additions = U64_MAX

\* github.rs:528-544 as a function: the total of a list of outcomes, taken
\* in the order of the list
RECURSIVE total_of(_, _)
total_of(t, outs) ==
    IF outs = <<>> THEN t
    ELSE total_of(IF Head(outs).ok THEN add_loc(t, Head(outs).loc) ELSE t,
                  Tail(outs))

\* C10: the total does not depend on the order of the repositories: the loop
\* of total_loc run over any permutation of the outcomes of the run gives
\* the three counters total_loc returned.
C10_OrderDoesNotMatter ==
    tpc = "done"
        => \A p \in Permutations(1..Len(outcomes)) :
              total_of(LocStatsDefault,
                       [i \in 1..Len(outcomes) |-> outcomes[p[i]]]) = tresult.val

\* three different successful repositories whose additions pass the largest
\* u64 at a step that depends on the order
C10_Witness ==
    /\ tpc = "done"
    /\ Len(outcomes) = 3
    /\ \A i \in 1..3 : outcomes[i].ok
    /\ outcomes[1].loc.additions = U64_HIGH
    /\ outcomes[2].loc.additions = U64_HIGH
    /\ outcomes[3].loc.additions = U64_ONE
    /\ tresult.val.additions = U64_MAX
    /\ tresult.val.deletions = U64_MAX

(***************************************************************************)
(* Claims about the counters, checked under SpecAggregate                  *)
(***************************************************************************)
LocLeq(s, t) ==
    /\ U64Leq(s.additions, t.additions)
    /\ U64Leq(s.deletions, t.deletions)
    /\ U64Leq(s.commits, t.commits)

LocInRange(s) == s.additions \in U64 /\ s.deletions \in U64 /\ s.commits \in U64

\* counter c became d by an addition of u: d is c + u, or the largest u64
\* when c + u passes it, and in both cases d is not below c
AddedTo(c, u, d) == d = CutSum(<<c, u>>) /\ U64Leq(c, d) /\ d \in U64

\* the LocStats after each of the records recs, in order, starting from s
CountersAlong(s, recs) ==
    [k \in 0..Len(recs) |-> add_nodes(s, SubSeq(recs, 1, k), Username)]

\* the records the step of repo_loc has decoded
NewRecords == SubSeq(seen', Len(seen) + 1, Len(seen'))

\* one step of a repo_loc run: record by record the counters stay or grow
RepoLocCountersStep ==
    LET along == CountersAlong(stats, NewRecords)
    IN  /\ stats' = along[Len(NewRecords)]
        /\ \A k \in 1..Len(NewRecords) :
              /\ LocLeq(along[k - 1], along[k])
              /\ LocInRange(along[k])

\* one step of a total_loc pass: the total stays, or a repository is added
TotalLocCountersStep ==
    /\ LocLeq(total, total')
    /\ LocInRange(total')
    /\ (tpc = "repo" /\ tpc' = "loop" /\ rresult.tag = "ok")
        => /\ AddedTo(total.additions, rresult.val.additions, total'.additions)
           /\ AddedTo(total.deletions, rresult.val.deletions, total'.deletions)
           /\ AddedTo(total.commits, rresult.val.commits, total'.commits)

\* C11: during one repo_loc run and one total_loc pass no step lowers one of
\* the counters additions, deletions and commits, and none passes the largest
\* 64-bit unsigned value: an addition that would pass it leaves the counter
\* at that value.
C11_CountersNeverDecrease ==
    [][/\ rpc' # "idle" => RepoLocCountersStep
       /\ TotalLocCountersStep]_vars

\* a repo_loc run whose second record took additions to the largest u64, in
\* a pass whose total deletions had reached the largest u64 before
C11_Witness ==
    /\ tpc = "repo"
    /\ rpc = "ret"
    /\ Len(seen) = 2
    /\ seen[1].additions = Some(U64_HIGH)
    /\ seen[2].additions = Some(U64_HIGH)
    /\ rresult = Ok(stats)
    /\ stats.additions = U64_MAX
    /\ total.deletions = U64_MAX
    /\ Len(Succeeded(outcomes)) >= 2

(***************************************************************************)
(* Claims about the decoders and main, checked under SpecMain              *)
(***************************************************************************)
CountFetches ==
    {"owned_repo_count", "follower_count", "contributed_repos", "commit_count",
     "star_count"}

\* graphql has returned Ok to one of the six fetches, with a body in which
\* a member on the path to the result is absent, null or of another type
BrokenPathReturned ==
    /\ gpc = "ret"
    /\ gresult.tag = "ok"
    /\ query.kind \in CountFetches \cup {"list_owned_repos"}
    /\ gresult.val.data.shape \in {"chain", "bad_node"}

\* what the fetch that called graphql makes of what graphql returned
FetchReturns ==
    IF query.kind = "list_owned_repos" THEN list_owned_repos_result(gresult)
    ELSE fetch_result(query.kind, gresult, TRUE)

ZeroValue == IF query.kind = "list_owned_repos" THEN <<>> ELSE <<0, 0>>

OptionMemberMissing ==
    LET d == gresult.val.data
    IN  /\ d.shape = "chain"
        /\ d.gap \in {"absent", "null"}
        /\ \/ d.depth <= 1
           \/ d.depth = 2 /\ query.kind = "commit_count"
           \/ d.depth = 3 /\ query.kind \in {"star_count", "list_owned_repos"}

C13_AbsentFieldAddsZero ==
    [][rpc' # "idle"
        => LET along == CountersAlong(stats, NewRecords)
           IN  /\ stats' = along[Len(NewRecords)]
               /\ \A k \in 1..Len(NewRecords) :
                     LET n == NewRecords[k]
                         before == along[k - 1]
                         after == along[k]
                     IN  n.login = Some(Username)
                           => /\ after.commits = CutSum(<<before.commits, U64_ONE>>)
                              /\ ~n.additions.some
                                    => after.additions = before.additions
                              /\ ~n.deletions.some
                                    => after.deletions = before.deletions]_vars

\* a record of the user without additions, then one without deletions: two
\* commits counted, and only the values that were there added
C13_Witness ==
    /\ rpc = "ret"
    /\ seen = <<Node(Some(Username), None, Some(U64_ONE)),
                Node(Some(Username), Some(U64_MAX), None)>>
    /\ rresult = Ok(LocStats(U64_MAX, U64_ONE, U64Of(2)))

\* graphql has returned Ok to repo_loc with a body in which data,
\* repository, defaultBranchRef, target or history is absent or null
HistoryMissingReturned ==
    /\ rpc = "await"
    /\ gpc = "ret"
    /\ gresult.tag = "ok"
    /\ gresult.val.data.shape = "chain"
    /\ gresult.val.data.gap \in {"absent", "null"}

\* C14: when the history container is missing from a successful response,
\* on whatever page, repo_loc returns the missing-history error, not a
\* LocStats, and once it has returned that error it sends no page request.
C14_MissingHistoryFails ==
    [][/\ HistoryMissingReturned
          => /\ rpc' = "ret"
             /\ rresult' = Err(ErrMissingHistory(Username, repo))
             /\ gpc' = "idle"
             /\ pages' = pages
       /\ (rpc = "ret" /\ rresult.tag = "err")
          => /\ gpc' = "idle"
             /\ pages' = pages \/ rpc' = "idle"]_vars

\* the container was missing on the second page, after the first page had
\* counted a commit: the error is returned and the count is not
C14_Witness ==
    /\ rpc = "ret"
    /\ pages = 2
    /\ stats.commits = U64_ONE
    /\ rresult = Err(ErrMissingHistory(Username, "a"))
    /\ gpc = "idle"

(***************************************************************************)
(* Claims about errors in a run of main, checked under SpecMain            *)
(***************************************************************************)
TransportErrors == {ErrNetwork, ErrParseJson}

\* the attempt just made ended in a transport error
TransportFailed == resp.kind \in {"send_error", "bad_json"}

\* C15: a send failure or a body that is not JSON, on any attempt and with
\* any status, makes graphql return the transport error on that attempt,
\* with no sleep and no further request; repo_loc and each of the five count
\* fetches return that error to their caller, and main ends with it.
C15_TransportErrorsSurface ==
    [][TransportFailed
        => /\ gpc = "ret"
           /\ gresult = Err(IF resp.kind = "send_error" THEN ErrNetwork
                            ELSE ErrParseJson)
           /\ requests = attempt
           /\ sleeps = attempt - 1
           /\ requests' = 0
           /\ rpc = "await" => rpc' = "ret" /\ rresult' = gresult
           /\ tpc = "list" => tpc' = "failed" /\ tresult' = gresult
           /\ mpc = "await"
                => /\ mpc' = "failed"
                   /\ mresult' = gresult
                   /\ failed_at' = query.kind
                   /\ counts' = counts]_vars

\* the third attempt of commit_count, after a 429 and a 500 were retried,
\* got a body that is not JSON with a 5xx status: graphql has returned the
\* transport error to commit_count
C15_Witness ==
    /\ mpc = "await"
    /\ query.kind = "commit_count"
    /\ resp = BadJson(500, None)
    /\ attempt = 3
    /\ n429 = 1
    /\ n5xx = 2
    /\ sleeps = 2
    /\ gresult = Err(ErrParseJson)

\* the top-level fetches of main: total_loc, which fails only when its
\* listing fails, and the five count fetches
TopLevelFetches == {"total_loc"} \cup CountFetches

Documents == <<"dark_mode.svg", "light_mode.svg">>

MainEnded == mpc \in {"done", "failed", "panicked"}

\* what holds of every state of a run of main
MainOutcome ==
    /\ failed_at \in TopLevelFetches
        => /\ mpc \in {"failed", "panicked"}
           /\ mresult.tag \in {"err", "panic"}
           /\ written = <<>>
    /\ failed_at = "total_loc" => tpc = "failed" /\ started = <<>>
    /\ tresult.tag = "err" => mpc \in {"total_loc", "failed"}
    /\ written # <<>> => tresult.tag = "ok" /\ fetch = Len(StatFetches)
    /\ (MainEnded /\ failed_at = "")
        => /\ mpc = "done"
           /\ mresult.tag = "ok"
           /\ written = Documents
           /\ Len(outcomes) = Len(repos)

\* the count fetch in progress is about to return an error to main
CountFetchFails ==
    /\ mpc = "await"
    /\ gpc = "ret"
    /\ \A c \in BOOLEAN : fetch_result(StatFetches[fetch + 1], gresult, c).tag # "ok"

\* list_owned_repos is about to return an error to total_loc
ListingFails ==
    /\ tpc = "list"
    /\ gpc = "ret"
    /\ list_owned_repos_result(gresult).tag = "err"

\* C16: when the listing or one of the five count fetches fails, main ends
\* with that error and has written neither document; a document is written
\* only after all six succeeded; and when nothing but repo_loc calls failed
\* (no top-level fetch, and neither the client's construction nor a write),
\* main ends with Ok and both documents written, however many repo_loc
\* calls failed.
C16_TopLevelFailureAborts ==
    [][/\ MainOutcome'
       /\ CountFetchFails
            => /\ mpc' \in {"failed", "panicked"}
               /\ failed_at' = StatFetches[fetch + 1]
               /\ counts' = counts
       /\ ListingFails => tpc' = "failed" /\ tresult'.tag = "err"]_vars

\* the one repository's repo_loc failed and every top-level fetch
\* succeeded: main has ended with Ok and both documents
C16_Witness ==
    /\ mpc = "done"
    /\ warnings = 1
    /\ ~outcomes[1].ok
    /\ failed_at = ""
    /\ written = Documents
    /\ mresult.tag = "ok"

(***************************************************************************)
(* Claims about the sleeps of graphql, checked under Spec                  *)
(***************************************************************************)
\* a Duration in milliseconds (for the Durations below 2^16 seconds)
DurationMillis(d) == d.secs[1] * 1000 + d.millis

BackoffMillis == <<250, 500, 1000>>

\* C17: after a 5xx response without `errors` to attempt n = 1, 2, 3, graphql
\* sleeps 250, 500, 1000 ms respectively and then sends attempt n + 1; n is
\* the number of requests of the call so far, those answered by 429 included.
C17_BackoffDoubles ==
    (DecodedNoErrors /\ resp.status \in 500..599 /\ attempt < MAX_RETRIES)
        => /\ SleepThenRetry
           /\ attempt = requests
           /\ attempt = n429 + n5xx
           /\ delay.secs \in {U64_ZERO, U64_ONE}
           /\ DurationMillis(delay) = BackoffMillis[attempt]

\* the third attempt, after two attempts answered by 429, got a 5xx: the
\* sleep is 1000 ms
C17_Witness ==
    /\ gpc = "sleep"
    /\ DecodedNoErrors
    /\ resp.status = 503
    /\ attempt = 3
    /\ n429 = 2
    /\ n5xx = 1
    /\ delay = [secs |-> U64_ONE, millis |-> 0]

\* the seconds the claim reads in each Retry-After value of the model: the
\* number, for the values that are a non-negative integer a u64 can hold,
\* and 2 for the others and for no header
ClaimedSeconds(h) ==
    CASE h = Some(<<"0">>) -> U64_ZERO
      [] h = Some(<<"1">>) -> U64_ONE
      [] h = Some(<<"+", "3">>) -> U64Of(3)
      [] h = Some(U64MaxText) -> U64_MAX
      [] OTHER -> U64Of(2)

\* C18: after a 429 response without `errors` to attempt 1, 2 or 3, graphql
\* sleeps the whole seconds of the Retry-After header when the header is a
\* non-negative integer, and 2 seconds when there is no header or it is not
\* such an integer (text, a negative number, an empty value, blanks, bytes
\* outside ASCII, a number no u64 holds).
C18_RetryAfterSeconds ==
    (DecodedNoErrors /\ resp.status = 429 /\ attempt < MAX_RETRIES)
        => /\ SleepThenRetry
           /\ delay = [secs |-> ClaimedSeconds(resp.retry_after), millis |-> 0]

\* a 429 with Retry-After: +3 is followed by a sleep of 3 s, after a 429
\* with a header that is no number had been followed by one of 2 s
C18_Witness ==
    /\ gpc = "sleep"
    /\ DecodedNoErrors
    /\ resp.status = 429
    /\ resp.retry_after = Some(<<"+", "3">>)
    /\ attempt = 2
    /\ n429 = 2
    /\ delay = [secs |-> U64Of(3), millis |-> 0]

\* the last response has a status that is neither 2xx, nor 429, nor 5xx
OtherStatus ==
    /\ resp.kind \in {"bad_json", "json"}
    /\ resp.status \notin (200..299) \cup {429} \cup (500..599)

\* C19 as stated: such a response makes the call fail at once with the error
\* that carries the status and the body.  (Stated of the responses whose
\* body decodes.)
C19_Original ==
    (OtherStatus /\ resp.kind = "json")
        => /\ gpc = "ret"
           /\ gresult = Err(ErrHttp(resp.status, resp.json))

\* C19, amended: such a response makes the call return an error on that
\* attempt, with no sleep and no further request; the error carries the
\* status and the body when the body decodes and has no `errors` member, is
\* the application error when it has one, and the transport error when the
\* body is not JSON.
C19_OtherStatusFailsAtOnce ==
    OtherStatus
        => /\ gpc = "ret"
           /\ requests = attempt
           /\ sleeps = attempt - 1
           /\ gresult =
                 Err(IF resp.kind = "bad_json" THEN ErrParseJson
                     ELSE IF resp.json.errors # "absent"
                          THEN ErrGraphqlErrors(resp.json.errors)
                          ELSE [kind |-> "http", status |-> resp.status,
                                body |-> resp.json])

\* a 404 without `errors` on the third attempt, after a 429 and a 500 were
\* retried: the error carries 404 and the body
C19_Witness ==
    /\ gpc = "ret"
    /\ DecodedNoErrors
    /\ resp.status = 404
    /\ attempt = 3
    /\ n429 = 1
    /\ n5xx = 1
    /\ sleeps = 2
    /\ gresult.err.kind = "http"
    /\ gresult.err.status = 404
    /\ gresult.err.body = resp.json

(***************************************************************************)
(* Claims about the paging of repo_loc, checked under SpecPaging           *)
(***************************************************************************)
\* graphql has returned a page with the history container to repo_loc
PageReturned ==
    /\ rpc = "await"
    /\ gpc = "ret"
    /\ gresult.tag = "ok"
    /\ gresult.val.data.shape = "page"

\* the `after` argument that carries cursor c: the text in quotes, or the
\* word null when there is no cursor
Carries(after, c) ==
    IF c.some THEN after.quoted /\ after.text = c.v
    ELSE ~after.quoted /\ after.text = "null"

\* C20: the first page request of a repo_loc run carries no cursor; a page
\* request is sent only when no other is under way, after the page before
\* it was decoded, and carries the next-cursor of that page; the first page
\* with has-more = false ends the run: the LocStats of the records of all
\* pages is returned and no request follows.
C20_PagesInSequence ==
    [][/\ (rpc = "loop" /\ rpc' = "await")
          => /\ gpc = "idle"
             /\ pages' = pages + 1
             /\ query'.kind = "history"
             /\ Carries(query'.after, cursor)
             /\ pages = 0 => cursor = None
       /\ (PageReturned /\ gresult.val.data.hasNextPage)
          => /\ rpc' = "loop"
             /\ cursor' = gresult.val.data.endCursor
             /\ rresult' = NoResult
       /\ (PageReturned /\ ~gresult.val.data.hasNextPage)
          => /\ rpc' = "ret"
             /\ rresult' = Ok(StatsOfRecords(seen'))
             /\ gpc' = "idle"
       /\ rpc = "ret" => gpc' = "idle" /\ (pages' = pages \/ rpc' = "idle")
       /\ rpc' = "await" => pages' >= 1 /\ query'.kind = "history"]_vars

\* the third page, asked for with the cursor of the second, had no next
\* page: repo_loc has returned the LocStats of the records of three pages
C20_Witness ==
    /\ rpc = "ret"
    /\ pages = 3
    /\ cursor = Some("c2")
    /\ Len(seen) = 3
    /\ rresult = Ok(StatsOfRecords(seen))
    /\ gpc = "idle"

(***************************************************************************)
(* Claims about the authors of the records, checked under SpecAuthors      *)
(***************************************************************************)
\* C22: a commit record whose author login is not the queried username (the
\* login of another, the empty login), or whose author, user or login is
\* absent, leaves additions, deletions and commits as they were.
C22_OtherAuthorsLeaveCounters ==
    [][rpc' # "idle"
        => LET along == CountersAlong(stats, NewRecords)
           IN  /\ stats' = along[Len(NewRecords)]
               /\ \A k \in 1..Len(NewRecords) :
                     NewRecords[k].login # Some(Username)
                        => along[k] = along[k - 1]]_vars

\* a record of the user was counted, then one without author was decoded:
\* the counters are those of the first record
C22_Witness ==
    /\ rpc = "ret"
    /\ seen = <<Node(Some(Username), Some(U64_ONE), Some(U64_ONE)),
                Node(Missing("author"), Some(U64_ONE), Some(U64_ONE))>>
    /\ rresult = Ok(LocStats(U64_ONE, U64_ONE, U64_ONE))

(***************************************************************************)
(* Claims about the order of requests and sleeps, checked under Spec       *)
(***************************************************************************)
\* C27: within one graphql call, each transport request is issued after as
\* many sleeps as there were earlier requests; every sleep is followed by a
\* request, so the call does at most MAX_RETRIES - 1 = 3 sleeps and returns
\* from its last response without sleeping.
C27_SleepsBetweenRequests ==
    /\ gpc = "send" => sleeps = requests /\ requests < MAX_RETRIES
    /\ gpc = "sleep" => sleeps = requests - 1 /\ requests < MAX_RETRIES
    /\ gpc = "ret" => sleeps = requests - 1 /\ requests = attempt
    /\ sleeps <= MAX_RETRIES - 1

\* the fourth response is a success: the call returns it after three sleeps
C27_Witness ==
    /\ gpc = "ret"
    /\ requests = MAX_RETRIES
    /\ sleeps = MAX_RETRIES - 1
    /\ gresult.tag = "ok"

(***************************************************************************)
(* Claims about the listing of total_loc, checked under SpecAggregate      *)
(***************************************************************************)
\* C23: total_loc calls list_owned_repos exactly once, before the first
\* repo_loc; when the listing fails, total_loc returns that error and no
\* repo_loc is ever started.
C23_ListedOnceFirst ==
    [][/\ listings' = (IF tpc' = "start" THEN 0 ELSE 1)
       /\ listings' # listings => started = <<>> /\ rpc = "idle"
       /\ started' # <<>> => listings' = 1 /\ tpc' \notin {"start", "list"}
       /\ ListingFails => /\ tpc' = "failed"
                          /\ tresult' = list_owned_repos_result(gresult)
                          /\ started' = <<>>
                          /\ rpc' = "idle"
       /\ tpc = "failed" => tpc' = "failed" /\ started' = <<>>]_vars

\* the listing request was answered four times with a server error
C23_Witness ==
    /\ tpc = "failed"
    /\ listings = 1
    /\ tresult.tag = "err"
    /\ tresult.err.kind = "http"
    /\ started = <<>>
    /\ rpc = "idle"

(***************************************************************************)
(* Claims about a page without end cursor, checked under SpecPaging        *)
(***************************************************************************)
\* a page with has-more = true and no next-cursor has come back
MoreWithoutCursor ==
    /\ PageReturned
    /\ gresult.val.data.hasNextPage
    /\ gresult.val.data.endCursor = None

\* C25: a page with has-more = true and no next-cursor neither fails nor
\* ends repo_loc: the loop goes on with an absent cursor and the counts of
\* all records so far, and the request that follows is the request of the
\* first page (after: null), the counts untouched by it.
C25_MoreWithoutCursorRestarts ==
    [][/\ MoreWithoutCursor
          => /\ rpc' = "loop"
             /\ rresult' = NoResult
             /\ cursor' = None
             /\ stats' = StatsOfRecords(seen')
             /\ seen' = seen \o page_nodes(gresult.val.data)
             /\ LocLeq(stats, stats')
       /\ (rpc = "loop" /\ rpc' = "await" /\ cursor = None)
          => /\ query' = HistoryQuery(Username, repo, None)
             /\ query'.after = [quoted |-> FALSE, text |-> "null"]
             /\ stats' = stats
             /\ seen' = seen]_vars

\* the second page had more pages and no cursor: the third request asks for
\* the first page again, two records of the user counted so far
C25_Witness ==
    /\ rpc = "await"
    /\ pages = 3
    /\ cursor = None
    /\ query = HistoryQuery(Username, repo, None)
    /\ stats.commits = U64Of(2)
    /\ Len(seen) = 2

(***************************************************************************)
(* Claims about the retry budget over several calls, checked under         *)
(* SpecBudget                                                              *)
(***************************************************************************)
\* what a call that started with attempt 0 has done after the responses as:
\* every response but the last led to a sleep, the k-th taken as attempt k
ReplayedFromZero(as, pc, result) ==
    /\ \A k \in 1..(Len(as) - 1) : graphql_step(as[k], k).next = "sleep"
    /\ Len(as) > 0 =>
          LET last == graphql_step(as[Len(as)], Len(as))
          IN  /\ last.result = result
              /\ last.next = "sleep" => pc \in {"sleep", "send"}
              /\ last.next = "ret" => pc = "ret"

\* C26: every graphql call starts with attempt 0 and no request sent,
\* whatever the calls before it did; what it does and returns is what its own
\* responses give when counted from attempt 1; so a repo_loc run never has
\* sent more than MAX_RETRIES = 4 transport requests per page it asked for,
\* and 4 for each of its pages can happen.
C26_BudgetPerCall ==
    [][/\ (gpc = "idle" /\ gpc' = "send")
          => attempt' = 0 /\ requests' = 0 /\ answers' = <<>>
       /\ gpc' # "idle"
          => /\ Len(answers') = attempt'
             /\ ReplayedFromZero(answers', gpc', gresult')
       /\ sent' <= MAX_RETRIES * pages']_vars

\* a run over two pages: each page took four requests, eight were sent
C26_Witness ==
    /\ rpc = "await"
    /\ gpc = "ret"
    /\ pages = 2
    /\ sent = 2 * MAX_RETRIES
    /\ Len(answers) = MAX_RETRIES
    /\ gresult.tag = "ok"

(***************************************************************************)
(* Claims about the end of repo_loc, checked under SpecForever             *)
(***************************************************************************)
\* a page with has-more = true has come back
MorePageReturned == PageReturned /\ gresult.val.data.hasNextPage

\* repo_loc is in its loop
InLoop == rpc \in {"loop", "await"}

\* C21: every page request of repo_loc is answered by an error or a last
\* page, after which repo_loc returns, or by a page with has-more = true,
\* after which the next request is sent, however many went before; so once
\* the server answers no more page with has-more = true repo_loc returns,
\* and as long as it answers every page with has-more = true repo_loc is in
\* its loop.
C21_ReturnsIffLastPage ==
    /\ [][MorePageReturned => rpc' = "loop" /\ rresult' = NoResult]_vars
    /\ (rpc = "loop") ~> (rpc = "await")
    /\ (rpc = "await") ~> (rpc = "ret" \/ MorePageReturned)
    /\ <>[]~MorePageReturned => []<>~InLoop

\* after more than PagesCap page requests the server has answered a last
\* page: repo_loc has returned
C21_Witness ==
    /\ rpc = "ret"
    /\ pages = PagesCap + 1
    /\ rresult.tag = "ok"

(***************************************************************************)
(* Claims about two callers of one client, checked under SpecConcurrent    *)
(***************************************************************************)
\* the first task's call is in the sleep that follows a 429
WaitingAfter429 == gpc = "sleep" /\ HasStatus(resp, {429})

\* the second task's call is in the sleep that follows a 429
PeerWaitingAfter429 == peer.gpc = "sleep" /\ HasStatus(peer.resp, {429})

C28_Original ==
    /\ failed_at # "stats"
    /\ snapshot.tag = "ok"
          => /\ snapshot.val.loc_add = [neg |-> FALSE, bits |-> tresult.val.additions]
             /\ snapshot.val.loc_del = [neg |-> FALSE, bits |-> tresult.val.deletions]
             /\ snapshot.val.loc_total.bits
                    = wrapping_sub(tresult.val.additions, tresult.val.deletions)
             /\ snapshot.val.loc_total.neg
                    = ~U64Leq(tresult.val.deletions, tresult.val.additions)

=============================================================================
